---------------------------- MODULE Spec2Model ----------------------------
(***************************************************************************)
(* Document ingestion and retrieval core of sp500_agentic_ai:              *)
(*   server/ingest/extract_text.py  (detect_kind, _clean_whitespace,       *)
(*                                   _chunk_text, extract_to_chunks)       *)
(*   server/ingest/embeddings.py    (iter_paths, resequence,               *)
(*                                   insert_batches, main, INSERT_SQL)     *)
(*   server/tools.py                (search_docs_auto)                     *)
(*                                                                         *)
(* Text is a sequence of one-character strings.  Library calls (file       *)
(* reads, PyMuPDF, BeautifulSoup, tesseract, SHA-256, the vector distance  *)
(* of the store) are environment tables; everything the repository's own   *)
(* code computes is computed here the way the code computes it.            *)
(***************************************************************************)
EXTENDS Integers, Sequences, FiniteSets, TLC

\* ------------------------------------------------------------------ bounds
MaxTextLen == 4
MaxChars == 3
MaxOverlap == 3
\* Cap on the chunk list of a chunker loop that never ends (overlap >=
\* max_chars); a loop that ends emits at most MaxTextLen chunks.
MaxChunks == MaxTextLen + 1

\* Defaults of _chunk_text / extract_to_chunks / main.
DefaultMaxChars == 6000
DefaultOverlap == 300

\* ------------------------------------------------------------ text helpers
NULL == "NULL"

Min(a, b) == IF a < b THEN a ELSE b

\* Characters str.strip() removes.
Whitespace == {" ", "\t", "\n"}

Chars == {"a", "b", " "}

RECURSIVE SeqsUpTo(_, _)
SeqsUpTo(S, n) ==
    IF n = 0 THEN {<<>>}
    ELSE LET shorter == SeqsUpTo(S, n - 1)
         IN shorter \cup {Append(s, c) : s \in {t \in shorter : Len(t) = n - 1}, c \in S}

RECURSIVE lstrip(_)
lstrip(s) ==
    IF s = <<>> THEN <<>>
    ELSE IF Head(s) \in Whitespace THEN lstrip(Tail(s)) ELSE s

RECURSIVE rstrip(_)
rstrip(s) ==
    IF s = <<>> THEN <<>>
    ELSE IF s[Len(s)] \in Whitespace THEN rstrip(SubSeq(s, 1, Len(s) - 1)) ELSE s

\* str.strip()
strip(s) == rstrip(lstrip(s))

\* Python slice text[i:j] for 0 <= i, 0 <= j <= len(text).
Slice(text, i, j) == IF j <= i THEN <<>> ELSE SubSeq(text, i + 1, j)

\* ----------------------------------------------------------------- chunker
\* _chunk_text lines 44-50: strip, the two early returns, loop entry.
ChunkEntry(text, max_chars, overlap) ==
    LET t == strip(text)
    IN IF t = <<>> THEN [text |-> t, chunks |-> <<>>, offs |-> <<>>, done |-> TRUE]
       ELSE IF Len(t) <= max_chars
            THEN [text |-> t, chunks |-> <<t>>, offs |-> <<0>>, done |-> TRUE]
            ELSE [text |-> t, chunks |-> <<>>, offs |-> <<>>, done |-> FALSE]

\* Mutant: the step back is one character longer than the overlap.
ChunkStepBackMore(text, max_chars, overlap, i, chunks, offs) ==
    IF ~(i < Len(text)) THEN [i |-> i, chunks |-> chunks, offs |-> offs, done |-> TRUE]
    ELSE LET j == Min(i + max_chars, Len(text))
             back == j - overlap - 1
         IN [i |-> IF j = Len(text) THEN i ELSE IF back < 0 THEN 0 ELSE back,
             chunks |-> Append(chunks, Slice(text, i, j)),
             offs |-> Append(offs, i),
             done |-> (j = Len(text))]

\* Mutant: the loop without "if j == len(text): break".
ChunkStepNoBreak(text, max_chars, overlap, i, chunks, offs) ==
    IF ~(i < Len(text)) THEN [i |-> i, chunks |-> chunks, offs |-> offs, done |-> TRUE]
    ELSE LET j == Min(i + max_chars, Len(text))
             back == j - overlap
         IN [i |-> IF back < 0 THEN 0 ELSE back,
             chunks |-> Append(chunks, Slice(text, i, j)),
             offs |-> Append(offs, i),
             done |-> FALSE]

\* Mutant: the step forgets to step back by the overlap.
ChunkStepNoOverlap(text, max_chars, overlap, i, chunks, offs) ==
    IF ~(i < Len(text)) THEN [i |-> i, chunks |-> chunks, offs |-> offs, done |-> TRUE]
    ELSE LET j == Min(i + max_chars, Len(text))
         IN [i |-> j,
             chunks |-> Append(chunks, Slice(text, i, j)),
             offs |-> Append(offs, i),
             done |-> (j = Len(text))]

\* One pass of the while loop of _chunk_text (lines 51-56).  offs records the
\* value of i at each append: the offset the chunk starts at.
ChunkStep(text, max_chars, overlap, i, chunks, offs) ==
    IF ~(i < Len(text)) THEN [i |-> i, chunks |-> chunks, offs |-> offs, done |-> TRUE]
    ELSE LET j == Min(i + max_chars, Len(text))
             back == j - overlap
         IN [i |-> IF j = Len(text) THEN i ELSE IF back < 0 THEN 0 ELSE back,
             chunks |-> Append(chunks, Slice(text, i, j)),
             offs |-> Append(offs, i),
             done |-> (j = Len(text))]

\* The loop run to its end.  A pass that neither breaks nor advances i is
\* followed by the same pass for ever (i never grows again): the call does
\* not return, which is reported as diverged.
RECURSIVE ChunkLoop(_, _, _, _, _, _)
ChunkLoop(text, max_chars, overlap, i, chunks, offs) ==
    LET s == ChunkStep(text, max_chars, overlap, i, chunks, offs)
    IN IF s.done THEN [chunks |-> s.chunks, offs |-> s.offs, diverged |-> FALSE]
       ELSE IF s.i <= i THEN [chunks |-> s.chunks, offs |-> s.offs, diverged |-> TRUE]
       ELSE ChunkLoop(text, max_chars, overlap, s.i, s.chunks, s.offs)

ChunkRun(text, max_chars, overlap) ==
    LET e == ChunkEntry(text, max_chars, overlap)
    IN IF e.done THEN [chunks |-> e.chunks, offs |-> e.offs, diverged |-> FALSE]
       ELSE ChunkLoop(e.text, max_chars, overlap, 0, <<>>, <<>>)

\* _chunk_text(text, max_chars, overlap) when the call returns.
_chunk_text(text, max_chars, overlap) == ChunkRun(text, max_chars, overlap).chunks

\* -------------------------------------------------------------- extraction
RECURSIVE DropWhileIn(_, _)
DropWhileIn(s, S) ==
    IF s = <<>> THEN <<>>
    ELSE IF Head(s) \in S THEN DropWhileIn(Tail(s), S) ELSE s

\* re.sub(r"[ \t]+", " ", s)
RECURSIVE CollapseBlanks(_)
CollapseBlanks(s) ==
    IF s = <<>> THEN <<>>
    ELSE IF Head(s) \in {" ", "\t"}
         THEN <<" ">> \o CollapseBlanks(DropWhileIn(Tail(s), {" ", "\t"}))
         ELSE <<Head(s)>> \o CollapseBlanks(Tail(s))

\* re.sub(r"\n{2,}", "\n\n", s)
RECURSIVE CollapseNewlines(_)
CollapseNewlines(s) ==
    IF s = <<>> THEN <<>>
    ELSE IF Head(s) = "\n"
         THEN LET rest == DropWhileIn(Tail(s), {"\n"})
              IN (IF Len(s) - Len(rest) >= 2 THEN <<"\n", "\n">> ELSE <<"\n">>)
                     \o CollapseNewlines(rest)
         ELSE <<Head(s)>> \o CollapseNewlines(Tail(s))

_clean_whitespace(s) == strip(CollapseNewlines(CollapseBlanks(s)))

\* The file system the ingestion runs on: path -> bytes and name suffix.
\* up/a.txt, up/b.txt and up/a.html hold the same bytes; up/bad.pdf is a
\* corrupt pdf.
Files ==
    [p \in {"up/a.txt", "up/b.txt", "up/a.html", "up/r.pdf", "up/n.bin",
            "up/bad.pdf", "up/b.md", "up/r2.pdf"} |->
        CASE p = "up/a.txt"  -> [bytes |-> "B1", suffix |-> ".txt"]
          [] p = "up/b.txt"  -> [bytes |-> "B1", suffix |-> ".txt"]
          [] p = "up/a.html" -> [bytes |-> "B1", suffix |-> ".html"]
          [] p = "up/r.pdf"  -> [bytes |-> "B2", suffix |-> ".pdf"]
          [] p = "up/n.bin"  -> [bytes |-> "B3", suffix |-> ".bin"]
          [] p = "up/bad.pdf" -> [bytes |-> "B4", suffix |-> ".pdf"]
          [] p = "up/b.md"   -> [bytes |-> "B1", suffix |-> ".md"]
          [] p = "up/r2.pdf" -> [bytes |-> "B2", suffix |-> ".pdf"]]

Paths == DOMAIN Files

\* Directories: the files below each that iter_paths' rglob patterns match
\* (n.bin matches none of them).
Dirs ==
    [d \in {"up", "same", "mixed", "inter", "pdfs"} |->
        CASE d = "up"    -> {"up/a.txt", "up/r.pdf"}
          [] d = "same"  -> {"up/a.txt", "up/b.txt"}
          [] d = "inter" -> {"up/a.txt", "up/r.pdf", "up/b.md"}
          [] d = "pdfs"  -> {"up/r.pdf", "up/r2.pdf"}
          [] d = "mixed" -> {"up/a.txt", "up/bad.pdf"}]

_HTML_EXT == {".html", ".htm"}
_IMG_EXT == {".png", ".jpg", ".jpeg", ".webp", ".bmp", ".tif", ".tiff"}
_TXT_EXT == {".txt", ".md", ".csv"}

\* mimetypes.guess_type(path)[0] for the suffixes of Files that reach it.
GuessType(suffix) == IF suffix = ".bin" THEN "application/octet-stream" ELSE NULL

detect_kind(path) ==
    LET ext == Files[path].suffix
        mt == GuessType(ext)
    IN IF ext \in _HTML_EXT THEN "html"
       ELSE IF ext \in _IMG_EXT THEN "image"
       ELSE IF ext \in _TXT_EXT THEN "txt"
       ELSE IF ext = ".pdf" THEN "pdf"
       ELSE IF mt = "text/html" THEN "html"
       ELSE IF mt = "application/pdf" THEN "pdf"
       ELSE IF mt \in {"text/plain", "text/xml"} THEN "txt"
       ELSE "binary"

\* Mutant: the document is identified by its path, not by its bytes.
compute_file_hashOfPath(path) == <<"sha256", path>>

\* hashlib.sha256 of the bytes, hex: injective on the bytes of Files.
compute_file_hash(path) == <<"sha256", Files[path].bytes>>

\* What the libraries return for given bytes: the decoded text (open/read),
\* soup.get_text (markup removed), page.get_text per page.
LibText(bytes, kind) ==
    CASE bytes = "B1" /\ kind = "txt"  -> << <<"a", "b", " ", "\t", "a", "b", " ">> >>
      [] bytes = "B1" /\ kind = "html" -> << <<"\n", "a", "b", "\n", "\n", "\n", "a">> >>
      [] bytes = "B2" /\ kind = "pdf"  -> << <<"a", " ", "b", " ", " ", "a">>,
                                             <<" ", "\n", " ">>,
                                             <<"b", "a">> >>
      [] OTHER -> << >>

\* Whether the library call raises on the bytes: fitz.open on a corrupt pdf.
LibRaises(bytes, kind) == bytes = "B4" /\ kind = "pdf"

\* Optional[int] page_no: None is <<>>, the page number n is <<n>>.
NoPage == <<>>
Page(n) == <<n>>

\* extract_pdf / extract_html / extract_txt / extract_image: the (page_no, text)
\* units of a file, whitespace-cleaned; page_no is enumerate(doc, start=1) for
\* a pdf and None otherwise.
ExtractUnits(path, kind) ==
    LET raw == LibText(Files[path].bytes, kind)
    IN [n \in 1..Len(raw) |->
          [page_no |-> IF kind = "pdf" THEN Page(n) ELSE NoPage,
           text |-> _clean_whitespace(raw[n])]]

\* Chunk(...) for the chunks of one unit: chunk_no = j restarts at 0 per unit.
UnitChunks(path, doc_id, unit, max_chars, overlap) ==
    LET cs == _chunk_text(unit.text, max_chars, overlap)
    IN [j \in 1..Len(cs) |->
          [doc_id |-> doc_id,
           chunk_id |-> <<doc_id, j - 1>>,
           source_path |-> path,
           page_no |-> unit.page_no,
           chunk_no |-> j - 1,
           text |-> cs[j],
           symbol |-> NULL, title |-> NULL, url |-> NULL]]

RECURSIVE FlattenUnits(_, _, _, _, _)
FlattenUnits(path, doc_id, units, max_chars, overlap) ==
    IF units = <<>> THEN <<>>
    ELSE UnitChunks(path, doc_id, Head(units), max_chars, overlap)
            \o FlattenUnits(path, doc_id, Tail(units), max_chars, overlap)

\* extract_to_chunks(path, max_chars, overlap) when every _chunk_text call
\* returns.
extract_to_chunks(path, max_chars, overlap) ==
    LET kind == detect_kind(path)
        doc_id == compute_file_hash(path)
    IN IF kind = "binary" THEN <<>>
       ELSE FlattenUnits(path, doc_id, ExtractUnits(path, kind), max_chars, overlap)

\* Whether a _chunk_text call of extract_to_chunks never returns.
ExtractDiverges(path, max_chars, overlap) ==
    LET kind == detect_kind(path)
        units == ExtractUnits(path, kind)
    IN /\ kind # "binary"
       /\ \E n \in 1..Len(units) : ChunkRun(units[n].text, max_chars, overlap).diverged

\* Mutant: an unsupported file raises instead of returning no chunks.
ExtractRaisesUnsupported(path) ==
    \/ LibRaises(Files[path].bytes, detect_kind(path))
    \/ detect_kind(path) = "binary"

\* Whether extract_to_chunks raises: the exception of the extractor's library
\* call passes through lines 109-152, which catch nothing.
ExtractRaises(path) == LibRaises(Files[path].bytes, detect_kind(path))

\* ------------------------------------------------------------- resequencer
RECURSIVE DocOrder(_, _)
\* Keys of by_doc in insertion order: doc_ids by first appearance.
DocOrder(chunks, seen) ==
    IF chunks = <<>> THEN <<>>
    ELSE IF Head(chunks).doc_id \in seen THEN DocOrder(Tail(chunks), seen)
         ELSE <<Head(chunks).doc_id>>
                 \o DocOrder(Tail(chunks), seen \cup {Head(chunks).doc_id})

\* Mutant: only the first unbroken stretch of the doc_id's chunks, as
\* grouping adjacent chunks would give.
SelectDocAdjacent(chunks, doc_id) ==
    LET at == {n \in 1..Len(chunks) : chunks[n].doc_id = doc_id}
    IN IF at = {} THEN <<>>
       ELSE LET first == CHOOSE n \in at : \A m \in at : n <= m
                last == CHOOSE n \in at :
                           /\ \A m \in first..n : m \in at
                           /\ n + 1 \notin at
            IN SubSeq(chunks, first, last)

RECURSIVE SelectDoc(_, _)
\* by_doc[doc_id]: the chunks of one doc_id in list order.
SelectDoc(chunks, doc_id) ==
    IF chunks = <<>> THEN <<>>
    ELSE IF Head(chunks).doc_id = doc_id
         THEN <<Head(chunks)>> \o SelectDoc(Tail(chunks), doc_id)
         ELSE SelectDoc(Tail(chunks), doc_id)

\* Mutant: the extractor's per-unit numbering is kept.
RenumberKeep(doc_id, items) == items

\* Mutant: the chunk_id also carries the chunk's source_path.
RenumberByPath(doc_id, items) ==
    [n \in 1..Len(items) |->
        [items[n] EXCEPT !.chunk_no = n - 1,
                         !.chunk_id = <<doc_id, n - 1, items[n].source_path>>]]

\* Lines 51-56: seq = 0, 1, ... over the items of one doc_id.
Renumber(doc_id, items) ==
    [n \in 1..Len(items) |->
        [items[n] EXCEPT !.chunk_no = n - 1, !.chunk_id = <<doc_id, n - 1>>]]

RECURSIVE ResequenceDocs(_, _)
ResequenceDocs(chunks, docs) ==
    IF docs = <<>> THEN <<>>
    ELSE Renumber(Head(docs), SelectDoc(chunks, Head(docs)))
            \o ResequenceDocs(chunks, Tail(docs))

resequence(chunks) == ResequenceDocs(chunks, DocOrder(chunks, {}))

\* ----------------------------------------------------------------- indexer
\* Directory listing order (rglob) of the files of the file system.
Listing ==
    <<"up/a.html", "up/a.txt", "up/b.md", "up/b.txt", "up/bad.pdf", "up/n.bin",
      "up/r.pdf", "up/r2.pdf">>

ListRank(p) == CHOOSE n \in 1..Len(Listing) : Listing[n] = p

\* iter_paths(input_path): the file itself, or for a directory the files of
\* each suffix in listing order, the suffixes in the iteration order of the
\* set exts, which differs from one process to the next.
iter_paths(input) ==
    IF input \in Paths THEN {<<input>>}
    ELSE LET fs == Dirs[input]
             n == Cardinality(fs)
         IN {o \in [1..n -> fs] :
                /\ \A a, b \in 1..n : a # b => o[a] # o[b]
                /\ \A a, b \in 1..n :
                      (a < b /\ Files[o[a]].suffix = Files[o[b]].suffix)
                          => /\ ListRank(o[a]) < ListRank(o[b])
                             /\ \A c \in a..b : Files[o[c]].suffix = Files[o[a]].suffix}

\* argparse strings that are false in "if args.symbol:" leave the attribute
\* unset, and insert_batches reads an unset attribute as None.
Stamped(v) == IF v = NULL \/ v = "" THEN NULL ELSE v

\* main lines 112-116.
StampChunks(chunks, args) ==
    [n \in 1..Len(chunks) |->
        [chunks[n] EXCEPT !.symbol = Stamped(args.symbol),
                          !.title = Stamped(args.title),
                          !.url = Stamped(args.url)]]

\* main lines 108-117: the loop over the paths.  Every path is opened and
\* read (compute_file_hash) before its text is chunked; a _chunk_text call
\* that does not return stops the run there, and so does an exception of
\* extract_to_chunks, which the loop does not catch.
RECURSIVE ExtractLoop(_, _, _, _)
ExtractLoop(paths, args, all_chunks, read) ==
    IF paths = <<>> THEN [status |-> "ok", chunks |-> all_chunks, read |-> read]
    ELSE LET path == Head(paths)
         IN IF ExtractRaises(path)
            THEN [status |-> "raised", chunks |-> all_chunks,
                  read |-> read \cup {path}]
            ELSE IF ExtractDiverges(path, args.max_chars, args.overlap)
            THEN [status |-> "diverged", chunks |-> all_chunks,
                  read |-> read \cup {path}]
            ELSE ExtractLoop(Tail(paths), args,
                     all_chunks \o StampChunks(
                         extract_to_chunks(path, args.max_chars, args.overlap), args),
                     read \cup {path})

\* The parameter dict insert_batches builds for one chunk (lines 73-82).
RowOf(r) ==
    [doc_id |-> r.doc_id, chunk_no |-> r.chunk_no, chunk_id |-> r.chunk_id,
     symbol |-> r.symbol, title |-> r.title, url |-> r.url,
     page_no |-> r.page_no, text |-> r.text]

\* Mutant: on a duplicate key the metadata of every stored row of the
\* document is overwritten.
UpsertRowWholeDoc(st, row) ==
    IF \E n \in 1..Len(st) : st[n].chunk_id = row.chunk_id
    THEN [n \in 1..Len(st) |->
            IF st[n].chunk_id = row.chunk_id
            THEN [st[n] EXCEPT !.text = row.text, !.symbol = row.symbol,
                               !.title = row.title, !.url = row.url,
                               !.page_no = row.page_no]
            ELSE IF st[n].doc_id = row.doc_id
            THEN [st[n] EXCEPT !.symbol = row.symbol, !.title = row.title,
                               !.url = row.url]
            ELSE st[n]]
    ELSE Append(st, row)

\* Mutant: a plain INSERT, without ON DUPLICATE KEY UPDATE.
UpsertRowPlainInsert(st, row) == Append(st, row)

\* Mutant: on a duplicate key the existing row is kept (INSERT IGNORE).
UpsertRowIgnore(st, row) ==
    IF \E n \in 1..Len(st) : st[n].chunk_id = row.chunk_id THEN st
    ELSE Append(st, row)

\* INSERT_SQL for one row; the table's unique key is chunk_id.  A row with a
\* new key is added; on a duplicate key text, symbol, title, url and page_no
\* of the stored row are overwritten.
UpsertRow(st, row) ==
    IF \E n \in 1..Len(st) : st[n].chunk_id = row.chunk_id
    THEN [n \in 1..Len(st) |->
            IF st[n].chunk_id = row.chunk_id
            THEN [st[n] EXCEPT !.text = row.text, !.symbol = row.symbol,
                               !.title = row.title, !.url = row.url,
                               !.page_no = row.page_no]
            ELSE st[n]]
    ELSE Append(st, row)

\* conn.execute(text(INSERT_SQL), buf): the rows of buf in order.
RECURSIVE Upsert(_, _)
Upsert(st, buf) ==
    IF buf = <<>> THEN st ELSE Upsert(UpsertRow(st, RowOf(Head(buf))), Tail(buf))

\* Mutant: buf is sent once it holds more than batch_size rows.
RECURSIVE NextBatchOver(_, _, _, _)
NextBatchOver(rows, pos, batch_size, buf) ==
    IF pos > Len(rows) THEN [buf |-> buf, pos |-> pos]
    ELSE IF rows[pos].text = <<>> THEN NextBatchOver(rows, pos + 1, batch_size, buf)
    ELSE IF Len(buf) + 1 > batch_size
         THEN [buf |-> Append(buf, rows[pos]), pos |-> pos + 1]
         ELSE NextBatchOver(rows, pos + 1, batch_size, Append(buf, rows[pos]))

\* insert_batches lines 64-88 from row pos on: rows with empty text are
\* skipped, the others fill buf until it holds batch_size rows or the rows
\* end.  pos is the index of the first row not yet looked at.
RECURSIVE NextBatch(_, _, _, _)
NextBatch(rows, pos, batch_size, buf) ==
    IF pos > Len(rows) THEN [buf |-> buf, pos |-> pos]
    ELSE IF rows[pos].text = <<>> THEN NextBatch(rows, pos + 1, batch_size, buf)
    ELSE IF Len(buf) + 1 >= batch_size
         THEN [buf |-> Append(buf, rows[pos]), pos |-> pos + 1]
         ELSE NextBatch(rows, pos + 1, batch_size, Append(buf, rows[pos]))

\* --------------------------------------------------------------- retrieval
\* inner_limit = max(k * 6, 50)
OverFactor == 6
OverFloor == 50
\* Mutant: the candidates are cut to k before the scope filter is applied.
inner_limitNaive(k) == k

\* Line 34: max(k * 6, 50).
inner_limit(k) == IF k * OverFactor > OverFloor THEN k * OverFactor ELSE OverFloor

\* LEFT(text, 600)
SnippetLen == 600

\* Default of max_chunks_per_doc.
DefaultMaxChunksPerDoc == 50

\* The rows "ORDER BY key LIMIT limit" may keep of a set of rows: all of
\* them when there are no more than limit, else the rows below the limit-th
\* smallest key and, of the rows that tie at it, any that fill the limit
\* (SQL leaves the order of equal keys open).
NearestSets(rows, key, limit) ==
    IF limit <= 0 THEN {{}}
    ELSE IF Cardinality(rows) <= limit THEN {rows}
    ELSE LET dk == CHOOSE v \in {key[r] : r \in rows} :
                      /\ Cardinality({r \in rows : key[r] < v}) < limit
                      /\ Cardinality({r \in rows : key[r] <= v}) >= limit
             below == {r \in rows : key[r] < dk}
             tie == {r \in rows : key[r] = dk}
         IN {below \cup X :
                X \in {Y \in SUBSET tie : Cardinality(Y) = limit - Cardinality(below)}}

\* The result lists "ORDER BY key LIMIT limit" may return over a set of rows:
\* ascending in key, rows of equal key in any order.
RECURSIVE OrderByLimit(_, _, _)
OrderByLimit(rows, key, limit) ==
    IF limit <= 0 \/ rows = {} THEN {<<>>}
    ELSE LET firsts == {r \in rows : \A q \in rows : key[r] <= key[q]}
         IN UNION {{<<r>> \o rest : rest \in OrderByLimit(rows \ {r}, key, limit - 1)} :
                      r \in firsts}

\* Mutant: the WHERE clause of the outer query is left out.
WhereNone(rows, symbol, doc_id) == rows

\* Lines 47-53: the WHERE clause of the outer query.  A filter is added only
\* for an argument that is true in "if symbol:" (neither None nor ""); the
\* values used here hold no quote or backslash, which _esc would change.
Where(rows, symbol, doc_id) ==
    {r \in rows :
        /\ (symbol # NULL /\ symbol # "") => r.symbol = symbol
        /\ (doc_id # NULL /\ doc_id # "") => r.doc_id = doc_id}

\* The columns of a hit (line 46) for a stored row at distance d.
HitOf(r, d) ==
    [chunk_id |-> r.chunk_id, doc_id |-> r.doc_id, page_no |-> r.page_no,
     symbol |-> r.symbol, title |-> r.title, url |-> r.url,
     snippet |-> Slice(r.text, 0, Min(SnippetLen, Len(r.text))), d |-> d]

\* The columns of an expansion row (line 74).
ContextOf(r) ==
    [chunk_id |-> r.chunk_id, doc_id |-> r.doc_id, page_no |-> r.page_no,
     symbol |-> r.symbol, title |-> r.title, url |-> r.url, text |-> r.text]

\* run_query(outer): the hit lists the search query may return on table rows
\* st with distances dist (by chunk_id).
SearchRows(st, dist, k, symbol, doc_id) ==
    LET rows == {st[n] : n \in 1..Len(st)}
        key == [r \in rows |-> dist[r.chunk_id]]
    IN UNION {OrderByLimit(Where(cand, symbol, doc_id), key, k) :
                 cand \in NearestSets(rows, key, inner_limit(k))}

\* Mutant: every hit adds its doc_id, seen or not.
TopDocIdsNoSeen(hits, seen, top_doc_ids, n) ==
    [j \in 1..Min(n, Len(hits)) |-> hits[j].doc_id]

\* Lines 62-70: the doc_ids to expand.
RECURSIVE TopDocIds(_, _, _, _)
TopDocIds(hits, seen, top_doc_ids, n) ==
    IF hits = <<>> THEN top_doc_ids
    ELSE LET did == Head(hits).doc_id
             top == IF did \in seen THEN top_doc_ids ELSE Append(top_doc_ids, did)
         IN IF Len(top) >= n THEN top
            ELSE TopDocIds(Tail(hits), seen \cup {did}, top, n)

\* Mutant: ORDER BY chunk_no DESC.
ExpandRowsDesc(st, did, max_chunks) ==
    LET rows == {st[n] : n \in 1..Len(st)}
        mine == {r \in rows : r.doc_id = did}
    IN OrderByLimit(mine, [r \in mine |-> 0 - r.chunk_no], max_chunks)

\* run_query(exp_sql), lines 73-80: WHERE doc_id = did ORDER BY chunk_no LIMIT
\* max_chunks_per_doc.
ExpandRows(st, did, max_chunks) ==
    LET rows == {st[n] : n \in 1..Len(st)}
        mine == {r \in rows : r.doc_id = did}
    IN OrderByLimit(mine, [r \in mine |-> r.chunk_no], max_chunks)

\* --------------------------------------------------------------- variables
VARIABLES
    cin,        \* _chunk_text: the text argument as passed by the caller
    ctext,      \* _chunk_text: text (the argument, then the stripped text)
    cmax,       \* _chunk_text: max_chars
    cover,      \* _chunk_text: overlap
    ci,         \* _chunk_text: i
    cchunks,    \* _chunk_text: chunks (the return value once cpc = "done")
    coffs,      \* offset i of each appended chunk
    cpc,        \* "call" | "loop" | "done"
    store,      \* the rows of table user_chat_docs, in insertion order
    wk,         \* per ingestion process (embeddings.py main): its position,
                \* args, path list, all_chunks, progress of insert_batches,
                \* the files it has read, whether one of its batches was
                \* written between two batches of another process (raced),
                \* the exception that ended it, if one did, and the
                \* position (pos) of each batch it has sent to the store
    dist,       \* VEC_EMBED_COSINE_DISTANCE(vec, question) of each stored row,
                \* by chunk_id
    sq,         \* search_docs_auto: the arguments of the call
    hits,       \* search_docs_auto: hits
    top,        \* search_docs_auto: top_doc_ids
    expanded,   \* search_docs_auto: expanded, in the order of its keys
    spc,        \* "idle" | "search" | "expand" | "done" | "failed"
    queries,    \* search_docs_auto: the run_query calls made, in order, each
                \* with whether it returned (ok) or raised
    sret,       \* search_docs_auto: what the call has returned
    facts,      \* the rows of table bronze_sec_facts, in insertion order
    sv          \* save_to_database: the arguments of the call, whether the
                \* table has a unique key over the fact columns, attempt, the
                \* offset i of the next batch, the waits slept so far, and
                \* how the call ended

chunkVars == <<cin, ctext, cmax, cover, ci, cchunks, coffs, cpc>>
ingestVars == <<store, wk>>
searchVars == <<dist, sq, hits, top, expanded, spc, queries, sret>>

saveVars == <<facts, sv>>

vars == <<chunkVars, ingestVars, searchVars, saveVars>>

\* Ingestion processes that may run at the same time.
Workers == {"w1", "w2"}

NoArgs ==
    [input |-> NULL, max_chars |-> 0, overlap |-> 0, batch |-> 0,
     symbol |-> NULL, title |-> NULL, url |-> NULL]

\* No exception has ended the process.
NoError == [stage |-> "none", context |-> <<>>]

IdleWorker ==
    [pc |-> "idle", args |-> NoArgs, paths |-> <<>>, chunks |-> <<>>, pos |-> 1,
     total |-> 0, read |-> {}, raced |-> FALSE, error |-> NoError, sent |-> <<>>]

NoQuery ==
    [k |-> 0, symbol |-> NULL, doc_id |-> NULL, expand_docs_top_n |-> 0,
     max_chunks_per_doc |-> 0]

\* No save_to_database call is under way.
SaveIdle ==
    [pc |-> "idle", records |-> 0, batch_size |-> 0, max_retries |-> 0,
     keyed |-> FALSE, attempt |-> 0, i |-> 0, slept |-> <<>>]

\* search_docs_auto has not returned.
NoResult == [returned |-> FALSE, rows |-> <<>>, expanded_docs |-> <<>>]

\* Lines 83-87: the returned dict (its "sql" entry left out).
Result(rows, expanded_docs) ==
    [returned |-> TRUE, rows |-> rows, expanded_docs |-> expanded_docs]

\* No search_docs_auto call is under way.
SearchIdle ==
    /\ dist = <<>>
    /\ sq = NoQuery
    /\ hits = <<>>
    /\ top = <<>>
    /\ expanded = <<>>
    /\ spc = "idle"
    /\ queries = <<>>
    /\ sret = NoResult
    /\ facts = <<>>
    /\ sv = SaveIdle

\* ------------------------------------------------- the chunker as a machine
\* The 12,300-character text of the spec's scenario.
ScenarioText == [k \in 1..12300 |-> "a"]

ChunkInputs ==
    (SeqsUpTo(Chars, MaxTextLen) \X (1..MaxChars) \X (0..MaxOverlap))
        \cup {<<ScenarioText, DefaultMaxChars, DefaultOverlap>>}

InitChunk ==
    /\ \E inp \in ChunkInputs :
          /\ cin = inp[1]
          /\ ctext = inp[1]
          /\ cmax = inp[2]
          /\ cover = inp[3]
    /\ ci = 0
    /\ cchunks = <<>>
    /\ coffs = <<>>
    /\ cpc = "call"
    /\ store = <<>>
    /\ wk = [w \in Workers |-> IdleWorker]
    /\ SearchIdle

\* Lines 44-50.
ChunkCall ==
    /\ cpc = "call"
    /\ LET e == ChunkEntry(ctext, cmax, cover)
       IN /\ ctext' = e.text
          /\ cchunks' = e.chunks
          /\ coffs' = e.offs
          /\ cpc' = IF e.done THEN "done" ELSE "loop"
    /\ ci' = 0
    /\ UNCHANGED <<cin, cmax, cover, ingestVars, searchVars, saveVars>>

\* Lines 51-57, one pass.
ChunkIter ==
    /\ cpc = "loop"
    /\ Len(cchunks) < MaxChunks
    /\ LET s == ChunkStep(ctext, cmax, cover, ci, cchunks, coffs)
       IN /\ ci' = s.i
          /\ cchunks' = s.chunks
          /\ coffs' = s.offs
          /\ cpc' = IF s.done THEN "done" ELSE "loop"
    /\ UNCHANGED <<cin, ctext, cmax, cover, ingestVars, searchVars, saveVars>>

NextChunk == ChunkCall \/ ChunkIter

SpecChunk == InitChunk /\ [][NextChunk]_vars

\* The interpreter keeps executing a call that has a next statement.
SpecChunkFair == SpecChunk /\ WF_vars(NextChunk)

\* ------------------------------------------------- ingestion (embeddings.py)
MaxBatch == 2

\* (max_chars, overlap) of a run: two valid settings and one with overlap =
\* max_chars.
ParamChoices == {<<2, 1>>, <<3, 1>>, <<2, 2>>}

\* --symbol / --title / --url of a run.
MetaChoices ==
    {[symbol |-> "UPLOADED", title |-> "Uploaded: a.txt", url |-> NULL],
     [symbol |-> NULL, title |-> "", url |-> "http://x"]}

ArgsOver(inputs, params) ==
    {[input |-> inp, max_chars |-> pc[1], overlap |-> pc[2], batch |-> b,
      symbol |-> m.symbol, title |-> m.title, url |-> m.url] :
        inp \in inputs, pc \in params, b \in 1..MaxBatch, m \in MetaChoices}

\* Command lines of a run.
ArgChoices ==
    ArgsOver((Paths \ {"up/b.md", "up/r2.pdf"})
                 \cup (DOMAIN Dirs \ {"inter", "pdfs"}), ParamChoices)
        \cup ArgsOver({"inter"}, {<<2, 1>>})

\* Command lines of two runs racing on the store.
RaceArgChoices ==
    ArgsOver({"up/a.txt", "up/b.txt", "up/r.pdf", "same"}, {<<2, 1>>, <<3, 1>>})

Terminal == {"done", "diverged", "failed"}

InitIngest ==
    /\ cin = <<>>
    /\ ctext = <<>>
    /\ cmax = 0
    /\ cover = 0
    /\ ci = 0
    /\ cchunks = <<>>
    /\ coffs = <<>>
    /\ cpc = "idle"
    /\ store = <<>>
    /\ wk = [w \in Workers |-> IdleWorker]
    /\ SearchIdle

\* main lines 98-109: the arguments are parsed and the paths listed.
Start(w, choices) ==
    /\ wk[w].pc = "idle"
    /\ \E args \in choices : \E order \in iter_paths(args.input) :
          wk' = [wk EXCEPT ![w] =
                    [IdleWorker EXCEPT !.pc = "extract", !.args = args,
                                       !.paths = order]]
    /\ UNCHANGED <<store, chunkVars, searchVars, saveVars>>

\* A run started from the shell: the second run starts when the first has
\* ended.
StartRun(w) ==
    /\ w = "w1" \/ wk["w1"].pc \in Terminal
    /\ Start(w, ArgChoices)

\* Two runs at the same time (two uploads handled at once): w2 may start as
\* soon as w1 has.
StartRace(w) ==
    /\ w = "w1" \/ wk["w1"].pc # "idle"
    /\ Start(w, RaceArgChoices)

\* main lines 108-124: extraction of every path, then "No chunks found." or
\* resequence; an exception of extract_to_chunks ends the process.
Extract(w) ==
    /\ wk[w].pc = "extract"
    /\ LET r == ExtractLoop(wk[w].paths, wk[w].args, <<>>, {})
       IN wk' = [wk EXCEPT ![w] =
                    IF r.status = "raised"
                    THEN [@ EXCEPT !.pc = "failed", !.read = r.read,
                                   !.error = [stage |-> "extract", context |-> <<>>]]
                    ELSE IF r.status = "diverged"
                    THEN [@ EXCEPT !.pc = "diverged", !.read = r.read]
                    ELSE IF r.chunks = <<>>
                    THEN [@ EXCEPT !.pc = "done", !.read = r.read]
                    ELSE [@ EXCEPT !.pc = "insert", !.read = r.read,
                                   !.chunks = resequence(r.chunks)]]
    /\ UNCHANGED <<store, chunkVars, searchVars, saveVars>>

\* insert_batches: one execute + commit (lines 84-88 or 90-93), and the
\* return once no row with text is left.
InsertBatch(w) ==
    /\ wk[w].pc = "insert"
    /\ LET me == wk[w]
           nb == NextBatch(me.chunks, me.pos, me.args.batch, <<>>)
           rest == NextBatch(me.chunks, nb.pos, me.args.batch, <<>>)
       IN /\ store' = IF nb.buf = <<>> THEN store ELSE Upsert(store, nb.buf)
          /\ wk' = [wk EXCEPT ![w] =
                       [@ EXCEPT !.pos = nb.pos,
                                 !.total = @ + Len(nb.buf),
                                 !.sent = IF nb.buf = <<>> THEN @
                                          ELSE Append(@, me.pos),
                                 !.raced = @ \/ \E v \in Workers \ {w} :
                                               wk[v].pc = "insert" /\ wk[v].pos > 1,
                                 !.pc = IF rest.buf = <<>> THEN "done" ELSE "insert"]]
    /\ UNCHANGED <<chunkVars, searchVars, saveVars>>

\* Mutant: the first row of a failed batch stays in the table.
AfterFailedWritePartial(st, buf) == Upsert(st, <<Head(buf)>>)

\* Mutant: the last row of the failed batch is persisted.
AfterFailedWriteLastRow(st, buf) == Upsert(st, <<buf[Len(buf)]>>)

\* The table after conn.execute or conn.commit has raised: the exception
\* leaves the with block of line 63, the connection is closed and its open
\* transaction, which holds the batch, is rolled back.
AfterFailedWrite(st, buf) == st

\* What the exception of the driver carries: the parameters of the statement
\* (the chunk_ids of the batch) when execute raised, nothing of the batch
\* when commit raised.
ErrorContexts(buf) == {[n \in 1..Len(buf) |-> buf[n].chunk_id], <<>>}

\* insert_batches lines 85-86 or 91-92 raise: nothing catches the exception,
\* neither in insert_batches nor in main, and the process ends.
WriteFails(w) ==
    /\ wk[w].pc = "insert"
    /\ LET me == wk[w]
           nb == NextBatch(me.chunks, me.pos, me.args.batch, <<>>)
       IN /\ nb.buf # <<>>
          /\ store' = AfterFailedWrite(store, nb.buf)
          /\ \E ctx \in ErrorContexts(nb.buf) :
                wk' = [wk EXCEPT ![w] =
                          [@ EXCEPT !.pc = "failed",
                                    !.sent = Append(@, me.pos),
                                    !.error = [stage |-> "write", context |-> ctx]]]
    /\ UNCHANGED <<chunkVars, searchVars, saveVars>>

\* Exit status of the embeddings.py process: 0 after main returns (also after
\* "No chunks found."), 1 after an uncaught exception.
ExitStatus(pc) == IF pc = "failed" THEN 1 ELSE 0

\* pipeline.py run_command, lines 16-24: sys.exit(1) when the child's
\* returncode is not 0; pipeline.py ends with status 0 otherwise.
run_command(returncode) == IF returncode # 0 THEN 1 ELSE 0

\* main.py ask, lines 455-458: the entry of processed_files for an uploaded
\* file, by the returncode of pipeline.py.
ProcessedFile(returncode) ==
    IF returncode = 0 THEN "processed and stored in database"
    ELSE "processing failed"

Next == \E w \in Workers : StartRun(w) \/ Extract(w) \/ InsertBatch(w)

Spec == InitIngest /\ [][Next]_vars

\* Command lines of the runs whose writes may fail.
FaultArgChoices == ArgsOver({"up/a.txt", "up/r.pdf", "up"}, {<<2, 1>>, <<3, 1>>})

\* A run started from the shell, as StartRun: after a failed run the caller
\* may run the command again.
StartFault(w) ==
    /\ w = "w1" \/ wk["w1"].pc \in Terminal
    /\ Start(w, FaultArgChoices)

\* Runs one after the other against a store whose writes may fail.
NextFault ==
    \E w \in Workers : StartFault(w) \/ Extract(w) \/ InsertBatch(w) \/ WriteFails(w)

SpecFault == InitIngest /\ [][NextFault]_vars

\* Command lines of runs racing on a store whose writes may fail.
StoreArgChoices ==
    {a \in ArgsOver({"up/a.txt", "up/r.pdf"}, {<<2, 1>>, <<3, 1>>}) :
        a.symbol = NULL}

StartStore(w) ==
    /\ w = "w1" \/ wk["w1"].pc # "idle"
    /\ Start(w, StoreArgChoices)

\* Two runs at the same time, either of which a failed write may end.
NextStore ==
    \E w \in Workers : StartStore(w) \/ Extract(w) \/ InsertBatch(w) \/ WriteFails(w)

SpecStore == InitIngest /\ [][NextStore]_vars

\* Command lines of runs over files and directories that hold the same
\* bytes twice.
DupArgChoices ==
    ArgsOver({"up/a.txt", "up/r.pdf", "same", "pdfs"}, {<<2, 1>>, <<3, 1>>})

StartDup(w) ==
    /\ w = "w1" \/ wk["w1"].pc \in Terminal
    /\ Start(w, DupArgChoices)

NextDup == \E w \in Workers : StartDup(w) \/ Extract(w) \/ InsertBatch(w)

SpecDup == InitIngest /\ [][NextDup]_vars

NextRace == \E w \in Workers : StartRace(w) \/ Extract(w) \/ InsertBatch(w)

SpecRace == InitIngest /\ [][NextRace]_vars

\* insert_batches called on row lists of its own: rows of one document,
\* any of them with empty text.
MaxRows == 4

RowLists ==
    UNION {{[n \in 1..len |->
                [doc_id |-> compute_file_hash("up/a.txt"),
                 chunk_id |-> <<compute_file_hash("up/a.txt"), n - 1>>,
                 source_path |-> "up/a.txt", page_no |-> NoPage,
                 chunk_no |-> n - 1, text |-> texts[n],
                 symbol |-> NULL, title |-> NULL, url |-> NULL]] :
              texts \in [1..len -> {<<>>, <<"a">>}]} : len \in 0..MaxRows}

\* main lines 118-123 on such a list: resequence, then insert_batches is
\* entered with the result.
CallInsertBatches(w) ==
    /\ w = "w1"
    /\ wk[w].pc = "idle"
    /\ \E rows \in RowLists, b \in 1..MaxBatch :
          wk' = [wk EXCEPT ![w] =
                    [IdleWorker EXCEPT !.pc = "insert",
                                       !.chunks = resequence(rows),
                                       !.args = [NoArgs EXCEPT !.batch = b]]]
    /\ UNCHANGED <<store, chunkVars, searchVars, saveVars>>

NextRows == \E w \in Workers : CallInsertBatches(w) \/ InsertBatch(w)

SpecRows == InitIngest /\ [][NextRows]_vars

\* ------------------------------------------------------- save_to_database
MaxFacts == 3
MaxRetries == 3

\* The fact records of normalized_records are numbered 1..records; the
\* records of batch i : i + batch_size (0-based slice, lines 281-282).
FactBatch(records, i, batch_size) ==
    [k \in 1..(Min(i + batch_size, records) - i) |-> i + k]

\* The except branch (lines 287-298): sleep 2**attempt and go round the
\* loop again, from the first batch, unless this was the last attempt.
OnSaveError(call) ==
    IF call.attempt < call.max_retries - 1
    THEN [call EXCEPT !.attempt = @ + 1, !.i = 0,
                      !.slept = Append(@, 2 ^ call.attempt)]
    ELSE [call EXCEPT !.pc = "raised"]

\* save_to_database(normalized_records, batch_size, max_retries) is called.
\* The table either has a unique key over the fact columns (the migrations'
\* PrimaryKeyConstraint) or only the autoincrement id of the model class.
CallSave ==
    /\ sv.pc = "idle"
    /\ \E n \in 1..MaxFacts, b \in 1..MaxBatch, r \in 1..MaxRetries, key \in BOOLEAN :
          sv' = [SaveIdle EXCEPT !.pc = "run", !.records = n, !.batch_size = b,
                                 !.max_retries = r, !.keyed = key]
    /\ UNCHANGED <<facts, chunkVars, ingestVars, searchVars>>

\* Whether the plain INSERT of the batch hits a row of a keyed table.
DuplicateKey(table, batch, keyed) ==
    keyed /\ \E k \in 1..Len(batch), n \in 1..Len(table) : table[n] = batch[k]

\* Lines 281-285: one batch is inserted and committed; after the last
\* batch the call returns.
SaveBatch ==
    /\ sv.pc = "run"
    /\ LET batch == FactBatch(sv.records, sv.i, sv.batch_size)
       IN /\ ~DuplicateKey(facts, batch, sv.keyed)
          /\ facts' = facts \o batch
    /\ sv' = [sv EXCEPT !.i = @ + sv.batch_size,
                        !.pc = IF sv.i + sv.batch_size >= sv.records
                               THEN "returned" ELSE "run"]
    /\ UNCHANGED <<chunkVars, ingestVars, searchVars>>

\* session.execute raises on a duplicate key: the batch is not inserted.
SaveDuplicate ==
    /\ sv.pc = "run"
    /\ DuplicateKey(facts, FactBatch(sv.records, sv.i, sv.batch_size), sv.keyed)
    /\ sv' = OnSaveError(sv)
    /\ UNCHANGED <<facts, chunkVars, ingestVars, searchVars>>

\* The store fails the execute or the commit of the batch (timeout, lost
\* connection): the batch is rolled back when the session closes.
SaveFails ==
    /\ sv.pc = "run"
    /\ sv' = OnSaveError(sv)
    /\ UNCHANGED <<facts, chunkVars, ingestVars, searchVars>>

NextSave == CallSave \/ SaveBatch \/ SaveDuplicate \/ SaveFails

SpecSave == InitIngest /\ [][NextSave]_vars

\* ---------------------------------------------- retrieval (search_docs_auto)
MaxK == 3
MaxExpand == 2
MaxExpandChunks == 2
\* Chunks of a long document of the table.
MaxDocChunks == 25

DocA == <<"sha256", "B1">>
DocB == <<"sha256", "B2">>
DocC == <<"sha256", "B3">>

\* The chunk list a run hands to insert_batches for a document of n chunks.
DocChunks(doc_id, n, symbol) ==
    Renumber(doc_id,
        [j \in 1..n |->
            [doc_id |-> doc_id, chunk_id |-> <<doc_id, 0>>, source_path |-> "up/doc",
             page_no |-> NoPage, chunk_no |-> 0,
             text |-> IF j % 2 = 0 THEN <<"a", "b">> ELSE <<"b", "a">>,
             symbol |-> symbol, title |-> NULL, url |-> NULL]])

\* The tables a run that hands chunks to insert_batches may leave, started
\* on any of tables.
AfterRun(tables, chunks) == {Upsert(st, chunks) : st \in tables}

\* Tables left by earlier ingestion runs: a short one, and one with more
\* rows than any inner_limit used here.
TableChoices ==
    AfterRun(AfterRun({<<>>}, DocChunks(DocA, 7, "AAPL")), DocChunks(DocB, 3, "MSFT"))
    \cup AfterRun(AfterRun(AfterRun({<<>>}, DocChunks(DocA, 7, "AAPL")),
                            DocChunks(DocB, MaxDocChunks, "MSFT")),
                   DocChunks(DocC, MaxDocChunks, NULL))

\* Distances of the rows to the question; the store computes them and the
\* code only orders by them.  "example": chunk 5 of DocA is nearest, then
\* chunk 2 of DocB, then chunk 1 of DocA.  "bychunk": equal for equal
\* chunk_no.  "afar": every row of DocA is farther than every other row, and
\* the rows of DocA tie in threes.
DistChoices == {"example", "bychunk", "afar"}

DistOf(pattern, r) ==
    CASE pattern = "example" ->
            IF r.doc_id = DocA /\ r.chunk_no = 5 THEN 0
            ELSE IF r.doc_id = DocB /\ r.chunk_no = 2 THEN 1
            ELSE IF r.doc_id = DocA /\ r.chunk_no = 1 THEN 2
            ELSE 3 + r.chunk_no
      [] pattern = "bychunk" -> r.chunk_no
      [] pattern = "afar" ->
            IF r.doc_id = DocA THEN 2 * MaxDocChunks + (r.chunk_no \div 3) ELSE r.chunk_no

\* The least k for which k * 6 exceeds the floor of 50.
LeastBigK == (OverFloor \div OverFactor) + 1

QueryChoices ==
    [k : (1..MaxK) \cup {LeastBigK},
     symbol : {NULL, "", "AAPL", "ZZZ"},
     doc_id : {NULL, DocA, DocC},
     expand_docs_top_n : 0..MaxExpand,
     max_chunks_per_doc : {MaxExpandChunks, DefaultMaxChunksPerDoc}]

InitSearch ==
    /\ cin = <<>>
    /\ ctext = <<>>
    /\ cmax = 0
    /\ cover = 0
    /\ ci = 0
    /\ cchunks = <<>>
    /\ coffs = <<>>
    /\ cpc = "idle"
    /\ wk = [w \in Workers |-> IdleWorker]
    /\ store \in TableChoices
    /\ \E pattern \in DistChoices :
          dist = [cid \in {store[n].chunk_id : n \in 1..Len(store)} |->
                     DistOf(pattern,
                            store[CHOOSE n \in 1..Len(store) : store[n].chunk_id = cid])]
    /\ sq \in QueryChoices
    /\ hits = <<>>
    /\ top = <<>>
    /\ expanded = <<>>
    /\ spc = "search"
    /\ queries = <<>>
    /\ sret = NoResult
    /\ facts = <<>>
    /\ sv = SaveIdle

\* Lines 33-70: the search query, and the doc_ids to expand.
RunSearch ==
    /\ spc = "search"
    /\ \E h \in SearchRows(store, dist, sq.k, sq.symbol, sq.doc_id) :
          LET found == [n \in 1..Len(h) |-> HitOf(h[n], dist[h[n].chunk_id])]
              ids == IF sq.expand_docs_top_n > 0 /\ found # <<>>
                     THEN TopDocIds(found, {}, <<>>, sq.expand_docs_top_n)
                     ELSE <<>>
          IN /\ hits' = found
             /\ top' = ids
             /\ spc' = IF ids = <<>> THEN "done" ELSE "expand"
             /\ sret' = IF ids = <<>> THEN Result(found, <<>>) ELSE NoResult
    /\ queries' = Append(queries, [query |-> <<"search">>, ok |-> TRUE])
    /\ UNCHANGED <<dist, sq, expanded, chunkVars, ingestVars, saveVars>>

\* Lines 72-81, one pass: the expansion query of the next doc_id.
ExpandNext ==
    /\ spc = "expand"
    /\ LET did == top[Len(expanded) + 1]
       IN /\ \E rows \in ExpandRows(store, did, sq.max_chunks_per_doc) :
                expanded' = Append(expanded,
                    [doc_id |-> did,
                     rows |-> [n \in 1..Len(rows) |-> ContextOf(rows[n])]])
          /\ queries' = Append(queries, [query |-> <<"expand", did>>, ok |-> TRUE])
    /\ spc' = IF Len(expanded) + 1 = Len(top) THEN "done" ELSE "expand"
    /\ sret' = IF Len(expanded) + 1 = Len(top) THEN Result(hits, expanded')
               ELSE NoResult
    /\ UNCHANGED <<dist, sq, hits, top, chunkVars, ingestVars, saveVars>>

\* Mutant: the exception is swallowed and what has been fetched is returned.
OnReadErrorPartial(rows, expanded_docs) ==
    [raised |-> FALSE, ret |-> Result(rows, expanded_docs)]

\* An exception of run_query (db.py 29-39, which catches nothing) inside
\* search_docs_auto, lines 56 and 80: no try/except, so it leaves the
\* function and nothing is returned.
OnReadError(rows, expanded_docs) == [raised |-> TRUE, ret |-> NoResult]

\* The store fails the search query or the next expansion query.
ReadFails ==
    /\ spc \in {"search", "expand"}
    /\ queries' = Append(queries,
           [query |-> IF spc = "search" THEN <<"search">>
                      ELSE <<"expand", top[Len(expanded) + 1]>>,
            ok |-> FALSE])
    /\ LET r == OnReadError(hits, expanded)
       IN /\ spc' = IF r.raised THEN "failed" ELSE "done"
          /\ sret' = r.ret
    /\ UNCHANGED <<dist, sq, hits, top, expanded, chunkVars, ingestVars, saveVars>>

NextSearch == RunSearch \/ ExpandNext \/ ReadFails

SpecSearch == InitSearch /\ [][NextSearch]_vars

\* ------------------------------------------------------------------ claims
\* Lengths of the chunks a finished _chunk_text call returns.
ChunkLens == [n \in 1..Len(cchunks) |-> Len(cchunks[n])]

\* Whether the finished call is the spec's scenario: 12,300 characters,
\* max_chars = 6000, overlap = 300.
ScenarioDone ==
    /\ cpc = "done"
    /\ Len(cin) = 12300
    /\ cmax = DefaultMaxChars
    /\ cover = DefaultOverlap

\* C8: boundary cases of _chunk_text for 0 <= overlap < max_chars, lengths
\* taken of the text as the chunker measures it (stripped, line 44): empty
\* text gives no chunk; length 1..max_chars gives the text as the only chunk;
\* length max_chars + 1 gives two chunks, the second starting at offset
\* max_chars - overlap and running to the end.
C8_ChunkBoundaryCases ==
    (cpc = "done" /\ 0 <= cover /\ cover < cmax) =>
        LET t == strip(cin)
            L == Len(t)
        IN /\ L = 0 => cchunks = <<>>
           /\ (1 <= L /\ L <= cmax) => cchunks = <<t>>
           /\ L = cmax + 1 =>
                 /\ Len(cchunks) = 2
                 /\ coffs = <<0, cmax - cover>>
                 /\ cchunks[1] = Slice(t, 0, cmax)
                 /\ cchunks[2] = Slice(t, cmax - cover, L)

C8_Witness ==
    /\ cpc = "done"
    /\ 1 <= cover /\ cover < cmax
    /\ Len(strip(cin)) = cmax + 1
    /\ Len(cchunks) = 2
    /\ coffs[2] = cmax - cover

\* C9 as amended: the scenario's chunks start at offsets [0, 5700, 11400] and
\* have lengths [6000, 6000, 900]: the last chunk runs from 11400 to 12300.
C9_ScenarioChunks ==
    ScenarioDone =>
        /\ coffs = <<0, 5700, 11400>>
        /\ ChunkLens = <<6000, 6000, 900>>

C9_Witness == ScenarioDone /\ Len(cchunks) = 3

\* C9 as claimed: lengths [6000, 6000, 300] at offsets [0, 5700, 11400].
C9_AsClaimed ==
    ScenarioDone =>
        /\ coffs = <<0, 5700, 11400>>
        /\ ChunkLens = <<6000, 6000, 300>>

\* The doc_ids of a chunk list.
DocsOf(chunks) == {chunks[n].doc_id : n \in 1..Len(chunks)}

\* The positions of a doc_id's chunks in a chunk list.
Positions(chunks, d) == {n \in 1..Len(chunks) : chunks[n].doc_id = d}

\* Whether a run has resequenced its chunks.
Resequenced(w) == wk[w].pc \in {"insert", "done"} /\ wk[w].chunks # <<>>

\* C1: after resequence, for every doc_id of the batch the chunk_no values
\* are exactly 0..N-1, N the number of chunks of that doc_id, without gap or
\* duplicate, whatever the number of pages and of documents in the batch.
C1_ChunkNumbering ==
    \A w \in Workers :
        Resequenced(w) =>
            \A d \in DocsOf(wk[w].chunks) :
                LET idx == Positions(wk[w].chunks, d)
                IN /\ {wk[w].chunks[n].chunk_no : n \in idx} = 0..(Cardinality(idx) - 1)
                   /\ \A n, m \in idx :
                         n # m => wk[w].chunks[n].chunk_no # wk[w].chunks[m].chunk_no

\* A batch of two documents, one of them a pdf whose pages 1 and 3 both
\* produced chunks.
C1_Witness ==
    \E w \in Workers :
        /\ Resequenced(w)
        /\ Cardinality(DocsOf(wk[w].chunks)) = 2
        /\ \E n, m \in 1..Len(wk[w].chunks) :
              /\ wk[w].chunks[n].page_no = Page(1)
              /\ wk[w].chunks[m].page_no = Page(3)
              /\ wk[w].chunks[m].chunk_no > 0

\* What a stored row and a chunk have in common: the identity and text of a
\* chunk.
Core(r) ==
    [doc_id |-> r.doc_id, chunk_no |-> r.chunk_no, chunk_id |-> r.chunk_id,
     text |-> r.text]

CoreList(chunks) == [n \in 1..Len(chunks) |-> Core(chunks[n])]

SameParams(a, b) == a.max_chars = b.max_chars /\ a.overlap = b.overlap

SameMeta(a, b) == a.symbol = b.symbol /\ a.title = b.title /\ a.url = b.url

\* Two runs over the same bytes: two single files with equal bytes.
SameBytes(a, b) ==
    /\ a.input \in Paths
    /\ b.input \in Paths
    /\ Files[a.input].bytes = Files[b.input].bytes

\* Two runs over the same document: the same input, or two files with the
\* same bytes that detect_kind classifies alike.
SameDocument(a, b) ==
    \/ a.input = b.input
    \/ SameBytes(a, b) /\ detect_kind(a.input) = detect_kind(b.input)

\* The rows of the store that belong to a doc_id.
StoreRows(d) == {n \in 1..Len(store) : store[n].doc_id = d}

BothChunked == Resequenced("w1") /\ Resequenced("w2")

\* C3 as amended: for fixed file bytes, fixed file kind (the kind detect_kind
\* derives from the file name) and fixed (max_chars, overlap), two runs
\* produce the same ordered chunk list: same doc_id, chunk_no, chunk_id and
\* text per chunk.
C3_Determinism ==
    (/\ BothChunked
     /\ SameBytes(wk["w1"].args, wk["w2"].args)
     /\ detect_kind(wk["w1"].args.input) = detect_kind(wk["w2"].args.input)
     /\ SameParams(wk["w1"].args, wk["w2"].args))
    => CoreList(wk["w1"].chunks) = CoreList(wk["w2"].chunks)

C3_Witness ==
    /\ BothChunked
    /\ wk["w1"].args.input = "up/a.txt"
    /\ wk["w2"].args.input = "up/b.txt"
    /\ SameParams(wk["w1"].args, wk["w2"].args)
    /\ Len(wk["w1"].chunks) > 1
    /\ CoreList(wk["w1"].chunks) = CoreList(wk["w2"].chunks)

\* C3 as claimed: for fixed file bytes and fixed (max_chars, overlap) two
\* runs produce the same ordered chunk list.
C3_AsClaimed ==
    (/\ BothChunked
     /\ SameBytes(wk["w1"].args, wk["w2"].args)
     /\ SameParams(wk["w1"].args, wk["w2"].args))
    => CoreList(wk["w1"].chunks) = CoreList(wk["w2"].chunks)

\* The rows a single run leaves in an empty store.
SingleIngestion(w) == Upsert(<<>>, wk[w].chunks)

RowSet(st) == {st[n] : n \in 1..Len(st)}

C10_ConfigRejectedBeforeIO ==
    \A w \in Workers :
        (wk[w].pc # "idle" /\ wk[w].args.overlap >= wk[w].args.max_chars)
            => /\ wk[w].read = {}
               /\ wk[w].total = 0
               /\ wk[w].pc # "diverged"


\* ---- retrieval claims
\* The search query of the call has returned its rows.
Searched == queries # <<>> /\ queries[1].ok
Stored == {store[n] : n \in 1..Len(store)}
StoredAt(cid) == CHOOSE r \in Stored : r.chunk_id = cid
Supplied(v) == v # NULL /\ v # ""
InScope(r) ==
    /\ Supplied(sq.symbol) => r.symbol = sq.symbol
    /\ Supplied(sq.doc_id) => r.doc_id = sq.doc_id
CandidateCount == IF 6 * sq.k >= 50 THEN 6 * sq.k ELSE 50
StoredIds == {store[n].chunk_id : n \in 1..Len(store)}
\* A set of chunk_ids is a choice of the CandidateCount nearest stored rows.
IsNearest(C, ids) ==
    /\ C \subseteq ids
    /\ Cardinality(C) = Min(CandidateCount, Cardinality(ids))
    /\ \A c \in C : \A q \in ids \ C : dist[c] <= dist[q]

\* The stored chunk_ids, each with its distance.
Ranked == {<<dist[c], c>> : c \in StoredIds}
\* chunk_ids in every choice of the nearest rows, and those in some choice.
SureOf(ranked) ==
    {p[2] : p \in {p \in ranked :
                      Cardinality({q \in ranked : q[1] <= p[1]}) <= CandidateCount}}
SomeOf(ranked) ==
    {p[2] : p \in {p \in ranked :
                      Cardinality({q \in ranked : q[1] < p[1]}) < CandidateCount}}
\* The hits are the first k, by distance, of the rows Q in scope among the
\* candidates C.
FirstOfScoped(C, Q, hitIds, ids) ==
    /\ IsNearest(C, ids)
    /\ hitIds \subseteq Q
    /\ Len(hits) = Min(sq.k, Cardinality(Q))
    /\ \A c \in Q \ hitIds : \A h \in hitIds : dist[h] <= dist[c]
FirstOfCandidates(ids, scoped, hitIds, sure, some) ==
    \E X \in SUBSET (some \ sure) :
        FirstOfScoped(sure \cup X, (sure \cup X) \cap scoped, hitIds, ids)

\* C5: the hits of search_docs_auto are the first k rows, nearest first, of
\* the rows among the max(6*k, 50) nearest stored rows that satisfy every
\* supplied scope filter; when fewer than k candidates qualify, just those
\* are returned; no hit violates the scope.  Stated of the hits when the
\* search query returns them; the call hands the same hits back.
C5_SearchTopK ==
    /\ sret.returned => sret.rows = hits
    /\ (Searched /\ Len(queries) = 1) =>
        /\ \A n \in 1..Len(hits) :
              /\ hits[n].chunk_id \in StoredIds
              /\ hits[n].d = dist[hits[n].chunk_id]
              /\ hits[n].doc_id = StoredAt(hits[n].chunk_id).doc_id
              /\ hits[n].symbol = StoredAt(hits[n].chunk_id).symbol
              /\ InScope(hits[n])
        /\ \A m, n \in 1..Len(hits) :
              m < n => /\ hits[m].chunk_id # hits[n].chunk_id
                       /\ hits[m].d <= hits[n].d
        /\ FirstOfCandidates(StoredIds,
                             {r.chunk_id : r \in {q \in Stored : InScope(q)}},
                             {hits[n].chunk_id : n \in 1..Len(hits)},
                             SureOf(Ranked), SomeOf(Ranked))

\* A filtered search over a table larger than the candidate count that
\* returned some hits but fewer than k, although more rows of the table are
\* in scope.
C5_Witness ==
    /\ Searched
    /\ Supplied(sq.doc_id)
    /\ Len(store) > CandidateCount
    /\ 0 < Len(hits)
    /\ Len(hits) < sq.k
    /\ Cardinality({r \in Stored : InScope(r)}) > Len(hits)

HitDocIds == {hits[n].doc_id : n \in 1..Len(hits)}
FirstPos(did) == CHOOSE n \in 1..Len(hits) :
                    /\ hits[n].doc_id = did
                    /\ \A m \in 1..(n - 1) : hits[m].doc_id # did
ExpandedIds == [n \in 1..Len(expanded) |-> expanded[n].doc_id]

\* C6: the expansion mapping holds exactly the first expand_top_n distinct
\* doc_ids of the hit list, in the order of their first appearance; all of
\* them when the hits hold fewer; none when expand_top_n = 0 or there are no
\* hits.
C6_ExpansionSelection ==
    spc = "done" =>
        /\ Len(expanded) = Min(sq.expand_docs_top_n, Cardinality(HitDocIds))
        /\ \A n \in 1..Len(expanded) : ExpandedIds[n] \in HitDocIds
        /\ \A m, n \in 1..Len(expanded) :
              m < n => FirstPos(ExpandedIds[m]) < FirstPos(ExpandedIds[n])
        /\ \A did \in HitDocIds :
              (\A n \in 1..Len(expanded) : ExpandedIds[n] # did) =>
                  \A n \in 1..Len(expanded) : FirstPos(ExpandedIds[n]) < FirstPos(did)

\* Two documents expanded, the first of which has the first two hits.
C6_Witness ==
    /\ spc = "done"
    /\ sq.expand_docs_top_n = 2
    /\ Len(expanded) = 2
    /\ Len(hits) > 2
    /\ hits[1].doc_id = hits[2].doc_id
    /\ ExpandedIds = <<hits[1].doc_id, hits[Len(hits)].doc_id>>

ChunksOf(did) == {r \in Stored : r.doc_id = did}
\* chunk_no of the stored row among mine that an expansion row shows.
ChunkNoOf(mine, row) == (CHOOSE r \in mine : r.chunk_id = row.chunk_id).chunk_no
\* rows are the lowest chunks of mine, the stored chunks of did, ascending.
LowestChunks(did, rows, mine) ==
    /\ Len(rows) = Min(sq.max_chunks_per_doc, Cardinality(mine))
    /\ \A n \in 1..Len(rows) :
          /\ rows[n].doc_id = did
          /\ \E r \in mine : r.chunk_id = rows[n].chunk_id /\ r.text = rows[n].text
    /\ \A n \in 1..(Len(rows) - 1) :
          ChunkNoOf(mine, rows[n]) < ChunkNoOf(mine, rows[n + 1])
    /\ \A r \in mine :
          (\A n \in 1..Len(rows) : rows[n].chunk_id # r.chunk_id) =>
              /\ rows # <<>>
              /\ ChunkNoOf(mine, rows[Len(rows)]) < r.chunk_no

\* C7: each expanded document's list holds the min(max_chunks_per_doc, N)
\* stored chunks of the document with the lowest chunk_no, ascending in
\* chunk_no, whatever chunks of it were hits and in whatever order.
C7_ExpansionOrder ==
    \A e \in 1..Len(expanded) :
        LowestChunks(expanded[e].doc_id, expanded[e].rows, ChunksOf(expanded[e].doc_id))

\* The hits are chunk 5 of DocA, chunk 2 of DocB, chunk 1 of DocA, with
\* expand_top_n = 1: only DocA is expanded, from chunk 0 on.
C7_Witness ==
    /\ spc = "done"
    /\ sq.expand_docs_top_n = 1
    /\ [n \in 1..Len(hits) |-> hits[n].chunk_id] = <<<<DocA, 5>>, <<DocB, 2>>, <<DocA, 1>>>>
    /\ Len(expanded) = 1
    /\ expanded[1].doc_id = DocA
    /\ Len(expanded[1].rows) >= 3
    /\ \A n \in 1..Len(expanded[1].rows) : expanded[1].rows[n].chunk_id = <<DocA, n - 1>>

\* ---- failure claims
Ended(w) == wk[w].pc \in Terminal

\* The rows a file contributes when a run with the arguments of w extracts
\* it alone.
RowsOfFile(w, path) ==
    LET cs == resequence(StampChunks(
                  extract_to_chunks(path, wk[w].args.max_chars, wk[w].args.overlap),
                  wk[w].args))
    IN {RowOf(cs[n]) : n \in 1..Len(cs)}

\* C11: a run over a directory in which the extraction of one file raises
\* ends normally, and the chunks of every other file of the directory are in
\* the store.
C11_ExtractionErrorIsolated ==
    \A w \in Workers :
        (/\ Ended(w)
         /\ wk[w].args.input \in DOMAIN Dirs
         /\ wk[w].args.overlap < wk[w].args.max_chars
         /\ \E p \in Dirs[wk[w].args.input] : ExtractRaises(p))
        => /\ wk[w].pc = "done"
           /\ \A p \in Dirs[wk[w].args.input] :
                 ~ExtractRaises(p) => RowsOfFile(w, p) \subseteq RowSet(store)


\* C12: a run on a file of unsupported kind gets no chunks from
\* extract_to_chunks, raises nothing, and ends having written nothing for
\* the file.
C12_UnsupportedYieldsNothing ==
    \A w \in Workers :
        (/\ Ended(w)
         /\ wk[w].args.input \in Paths
         /\ detect_kind(wk[w].args.input) = "binary")
        => /\ wk[w].pc = "done"
           /\ wk[w].error = NoError
           /\ extract_to_chunks(wk[w].args.input, wk[w].args.max_chars,
                                wk[w].args.overlap) = <<>>
           /\ wk[w].chunks = <<>>
           /\ wk[w].total = 0
           /\ \A n \in 1..Len(store) :
                 store[n].doc_id # compute_file_hash(wk[w].args.input)

\* A run on up/n.bin has ended after an earlier run has stored rows.
C12_Witness ==
    /\ wk["w1"].pc = "done"
    /\ wk["w1"].total > 0
    /\ wk["w2"].pc = "done"
    /\ wk["w2"].args.input = "up/n.bin"
    /\ Len(store) = wk["w1"].total


\* What became of the file of a run that has returned or raised.
Outcome(w) ==
    IF wk[w].pc = "failed" THEN "failed to process"
    ELSE IF wk[w].total > 0 THEN "chunks stored"
    ELSE "uploaded but nothing extracted"

\* The per-file result the upload handler shows for the run.
Reported(w) == ProcessedFile(run_command(ExitStatus(wk[w].pc)))

\* C13: the per-file results of two uploaded files whose outcomes differ
\* (chunks stored, nothing extracted, failed to process) differ.
C13_OutcomesDistinguishable ==
    \A w, v \in Workers :
        (/\ wk[w].pc \in {"done", "failed"}
         /\ wk[v].pc \in {"done", "failed"}
         /\ wk[w].args.input \in Paths
         /\ wk[v].args.input \in Paths
         /\ Outcome(w) # Outcome(v))
        => Reported(w) # Reported(v)


\* The rows of the batches of w written before position pos of its chunks.
RowsBefore(w, pos) ==
    {RowOf(wk[w].chunks[n]) : n \in {m \in 1..(pos - 1) : wk[w].chunks[m].text # <<>>}}

\* C14: when the upsert of a batch fails the process ends with the error,
\* the rows of its earlier batches are in the store, and the store holds
\* nothing it did not hold before the failed batch was sent.
C14_NotAtomicAcrossBatches ==
    [][\A w \in Workers :
          (wk[w].pc = "insert" /\ wk'[w].pc = "failed")
          => /\ wk'[w].error.stage = "write"
             /\ ExitStatus(wk'[w].pc) # 0
             /\ RowsBefore(w, wk[w].pos) \subseteq RowSet(store')
             /\ store' = store]_vars

\* A run has failed on a batch after writing an earlier one.
C14_Witness ==
    \E w \in Workers :
        /\ wk[w].pc = "failed"
        /\ wk[w].error.stage = "write"
        /\ Len(wk[w].sent) >= 2
        /\ wk[w].total > 0
        /\ RowsBefore(w, wk[w].pos) # {}
        /\ RowsBefore(w, wk[w].pos) \subseteq RowSet(store)
        /\ Len(store) < Cardinality(RowsBefore(w, Len(wk[w].chunks) + 1))


FailedWrite(w) == wk[w].pc = "failed" /\ wk[w].error.stage = "write"

\* Index of the batch a failed run sent last, counted from 1.
FailedBatch(w) == Len(wk[w].sent)

\* C15: the error of a failed batch write tells which batch failed: runs
\* that failed on batches of different index end with different errors.
C15_FailureNamesBatch ==
    \A w, v \in Workers :
        (FailedWrite(w) /\ FailedWrite(v) /\ FailedBatch(w) # FailedBatch(v))
        => wk[w].error # wk[v].error


\* How many times a failed run sent the batch it failed on.
Attempts(w) ==
    Cardinality({n \in 1..Len(wk[w].sent) : wk[w].sent[n] = wk[w].sent[Len(wk[w].sent)]})

\* C16: a failed store write is surfaced only after the failing batch has
\* been sent again at least once, and no batch that succeeded is sent twice.
C16_BatchRetried ==
    \A w \in Workers :
        FailedWrite(w)
        => /\ Attempts(w) >= 2
           /\ \A m, n \in 1..(Len(wk[w].sent) - Attempts(w)) :
                 m # n => wk[w].sent[m] # wk[w].sent[n]


\* ---- read failures
FailedQueries == {n \in 1..Len(queries) : ~queries[n].ok}

\* C17: once a query of search_docs_auto has raised, the call has failed:
\* the failed query is the last one made, no query was made twice, and
\* nothing is returned, neither the hits alone nor an empty result.
C17_ReadErrorSurfaced ==
    FailedQueries # {}
    => /\ spc = "failed"
       /\ sret = NoResult
       /\ FailedQueries = {Len(queries)}
       /\ \A m, n \in 1..Len(queries) :
             m # n => queries[m].query # queries[n].query

\* The expansion query of the second document raised after the search and
\* the first expansion had returned rows.
C17_Witness ==
    /\ spc = "failed"
    /\ hits # <<>>
    /\ Len(expanded) = 1
    /\ expanded[1].rows # <<>>
    /\ Len(queries) = 3
    /\ ~queries[3].ok
    /\ sret = NoResult


\* ---- content addressing
\* The chunks of every run that has resequenced them.
AllChunks ==
    UNION {{wk[w].chunks[n] : n \in 1..Len(wk[w].chunks)} :
              w \in {v \in Workers : Resequenced(v)}}

\* Equal bytes give equal doc_id, and doc_id with chunk_no gives chunk_id.
AddressedByContent ==
    \A c, e \in AllChunks :
        /\ Files[c.source_path].bytes = Files[e.source_path].bytes
              => c.doc_id = e.doc_id
        /\ (c.doc_id = e.doc_id /\ c.chunk_no = e.chunk_no)
              => c.chunk_id = e.chunk_id

\* C18: whenever a run produces its chunks, then among them and the chunks
\* of the runs before it, chunks of files with the same bytes carry the
\* same doc_id, whatever the files' names and whichever run, earlier or
\* later, read them; and the chunk_id is settled by doc_id and chunk_no
\* alone, whatever the source_path.
C18_ContentAddressed ==
    [][(\E w \in Workers : wk'[w].chunks # wk[w].chunks)
          => AddressedByContent']_vars

\* A later run read the same bytes under another name and of another kind
\* than an earlier run, and both produced a chunk numbered 1.
C18_Witness ==
    /\ wk["w1"].pc = "done"
    /\ Resequenced("w2")
    /\ \E c, e \in AllChunks :
          /\ c.source_path = "up/a.txt"
          /\ e.source_path = "up/a.html"
          /\ c.chunk_no = 1
          /\ e.chunk_no = 1
          /\ c.text # e.text
          /\ c.doc_id = e.doc_id
          /\ c.chunk_id = e.chunk_id


\* ---- grouping
\* The chunks main hands to resequence in a run: those of the extraction
\* loop over the run's paths.
RawChunks(w) == ExtractLoop(wk[w].paths, wk[w].args, <<>>, {}).chunks

\* The chunks of one document, in list order.
OnlyDoc(chunks, d) ==
    LET OfDoc(c) == c.doc_id = d
    IN SelectSeq(chunks, OfDoc)

NoAndText(chunks) ==
    [n \in 1..Len(chunks) |-> <<chunks[n].chunk_no, chunks[n].text>>]

\* C19: when a run over several documents resequences its chunks, each
\* document's chunks come out with the chunk_no and text they get when the
\* document's chunks are resequenced alone, and every chunk's chunk_id is
\* its doc_id with its chunk_no.
C19_GroupedByDocId ==
    [][\A w \in Workers :
          (wk[w].pc = "extract" /\ wk'[w].pc = "insert") =>
              LET raw == RawChunks(w)
                  out == wk'[w].chunks
              IN /\ \A d \in DocsOf(raw) :
                       NoAndText(OnlyDoc(out, d))
                           = NoAndText(resequence(OnlyDoc(raw, d)))
                 /\ DocsOf(out) = DocsOf(raw)
                 /\ \A n \in 1..Len(out) :
                       out[n].chunk_id = <<out[n].doc_id, out[n].chunk_no>>]_vars

\* A run whose extraction gave chunks of one document, then of another,
\* then of the first again: the later chunks continue the first
\* document's numbering.
C19_Witness ==
    \E w \in Workers :
        /\ Resequenced(w)
        /\ LET raw == RawChunks(w)
           IN \E i, j, k \in 1..Len(raw) :
                 /\ i < j /\ j < k
                 /\ raw[i].doc_id = raw[k].doc_id
                 /\ raw[j].doc_id # raw[i].doc_id
                 /\ raw[k].chunk_no = 0
                 /\ \E n \in 1..Len(wk[w].chunks) :
                       /\ wk[w].chunks[n].source_path = raw[k].source_path
                       /\ wk[w].chunks[n].text = raw[k].text
                       /\ wk[w].chunks[n].chunk_no > 1


\* ---- termination
\* ceil(a / b) for a >= 0 and b > 0.
CeilDiv(a, b) == (a + b - 1) \div b

ValidOverlap == 0 <= cover /\ cover < cmax

\* C20: with 0 <= overlap < max_chars every call of _chunk_text returns,
\* and a call on a text whose trimmed length L exceeds max_chars returns
\* exactly ceil((L - overlap) / (max_chars - overlap)) chunks, one per pass
\* of the loop.
C20_TerminatesLinear ==
    /\ [](ValidOverlap => <>(cpc = "done"))
    /\ []((ValidOverlap /\ cpc = "done" /\ Len(ctext) > cmax)
             => Len(cchunks) = CeilDiv(Len(ctext) - cover, cmax - cover))

\* A call with a positive overlap that returned after three or more passes.
C20_Witness ==
    /\ cpc = "done"
    /\ ValidOverlap
    /\ cover > 0
    /\ Len(ctext) > cmax
    /\ Len(cchunks) >= 3
    /\ Len(cchunks) = CeilDiv(Len(ctext) - cover, cmax - cover)


\* ---- upsert frame
\* The rows the run of w sends in its next write.
BatchOf(w) == NextBatch(wk[w].chunks, wk[w].pos, wk[w].args.batch, <<>>).buf

\* The step is a write of w's run.
Writes(w) == wk[w].pc = "insert" /\ wk'[w].sent # wk[w].sent

\* C21: a write leaves chunk_id, doc_id and chunk_no of every stored row as
\* they were; a stored row whose chunk_id the write carries takes text,
\* symbol, title, url and page_no of the written row; every other stored
\* row is left as it was.
C21_UpsertFrame ==
    [][\A w \in Workers :
          Writes(w) =>
              LET buf == BatchOf(w)
              IN /\ Len(store') >= Len(store)
                 /\ \A n \in 1..Len(store) :
                       /\ store'[n].chunk_id = store[n].chunk_id
                       /\ store'[n].doc_id = store[n].doc_id
                       /\ store'[n].chunk_no = store[n].chunk_no
                       /\ \/ /\ \A k \in 1..Len(buf) :
                                   buf[k].chunk_id # store[n].chunk_id
                             /\ store'[n] = store[n]
                          \/ \E k \in 1..Len(buf) :
                                /\ buf[k].chunk_id = store[n].chunk_id
                                /\ store'[n].text = buf[k].text
                                /\ store'[n].symbol = buf[k].symbol
                                /\ store'[n].title = buf[k].title
                                /\ store'[n].url = buf[k].url
                                /\ store'[n].page_no = buf[k].page_no]_vars

\* A second run over a stored document, with other parameters and other
\* metadata, has written its first batch: a row it hit carries its text and
\* metadata, and a row of the document it has not reached yet still carries
\* the metadata of the first run.
C21_Witness ==
    /\ wk["w1"].pc = "done"
    /\ wk["w1"].chunks # <<>>
    /\ wk["w2"].pc = "insert"
    /\ wk["w2"].pos > 1
    /\ ~SameMeta(wk["w1"].args, wk["w2"].args)
    /\ \E m, n \in 1..Len(store) :
          /\ store[m].doc_id = store[n].doc_id
          /\ store[m].symbol = Stamped(wk["w2"].args.symbol)
          /\ store[m].text = wk["w2"].chunks[1].text
          /\ store[m].chunk_id = wk["w2"].chunks[1].chunk_id
          /\ store[m].text # wk["w1"].chunks[1].text
          /\ store[m].chunk_id = wk["w1"].chunks[1].chunk_id
          /\ store[n].symbol = Stamped(wk["w1"].args.symbol)
          /\ store[n].symbol # store[m].symbol


\* ---- batching
\* The rows of a list that have text, in list order.
WithText(rows) ==
    LET HasText(r) == r.text # <<>>
    IN SelectSeq(rows, HasText)

\* C22: every write of insert_batches adds between 1 and batch_size rows to
\* the count, exactly batch_size when another write follows it; when the
\* call has returned, the rows with text have reached the store once each
\* in input order, no row without text has, and the total returned is the
\* number of rows with text.
C22_BatchedOnceInOrder ==
    /\ [][\A w \in Workers :
             Writes(w) =>
                 LET n == wk'[w].total - wk[w].total
                 IN /\ n = Len(store') - Len(store)
                    /\ 1 <= n
                    /\ n <= wk[w].args.batch
                    /\ wk'[w].pc = "insert" => n = wk[w].args.batch]_vars
    /\ [](\A w \in Workers :
             wk[w].pc = "done" =>
                 LET rows == WithText(wk[w].chunks)
                 IN /\ store = [n \in 1..Len(rows) |-> RowOf(rows[n])]
                    /\ wk[w].total = Len(rows))

\* A call on four rows, the second without text, with batch_size 2 has
\* returned after a full write and a last write of one row.
C22_Witness ==
    /\ wk["w1"].pc = "done"
    /\ wk["w1"].args.batch = 2
    /\ Len(wk["w1"].chunks) = 4
    /\ wk["w1"].chunks[2].text = <<>>
    /\ wk["w1"].total = 3
    /\ wk["w1"].sent = <<1, 4>>
    /\ Len(store) = 3


PageNum(c) == IF c.page_no = NoPage THEN 0 ELSE c.page_no[1]

\* C24: after resequencing, of two chunks of one doc_id the one with the
\* smaller chunk_no has the smaller or the same page_no, and chunks of one
\* page follow each other in the order the chunker emitted them; chunks of
\* a pdf carry a page_no from 1 on, chunks of html, text and image files
\* carry none.
C24_PageThenLocalOrder ==
    \A w \in Workers :
        Resequenced(w) =>
            LET cs == wk[w].chunks
            IN /\ \A m, n \in 1..Len(cs) :
                     (cs[m].doc_id = cs[n].doc_id /\ cs[m].chunk_no < cs[n].chunk_no)
                         => PageNum(cs[m]) <= PageNum(cs[n])
               /\ \A n \in 1..Len(cs) :
                     IF detect_kind(cs[n].source_path) = "pdf"
                     THEN cs[n].page_no # NoPage /\ PageNum(cs[n]) >= 1
                     ELSE cs[n].page_no = NoPage
               /\ \A d \in DocsOf(cs) :
                     OnlyDoc(cs, d)
                         = Renumber(d, OnlyDoc(RawChunks(w), d))


\* ---- coverage
\* The first chunk followed by every later chunk without its first overlap
\* characters.
RECURSIVE Rejoin(_, _)
Rejoin(chunks, overlap) ==
    IF chunks = <<>> THEN <<>>
    ELSE IF Len(chunks) = 1 THEN chunks[1]
    ELSE Rejoin(SubSeq(chunks, 1, Len(chunks) - 1), overlap)
            \o Slice(chunks[Len(chunks)], overlap, Len(chunks[Len(chunks)]))

\* C25: with 0 <= overlap < max_chars and a trimmed text longer than
\* max_chars, no chunk is longer than max_chars, every chunk but the last
\* has exactly max_chars characters, each chunk after the first starts
\* overlap characters before the end of the one before it, and the first
\* chunk followed by every later chunk without its first overlap
\* characters is the trimmed text.
C25_ChunksCoverText ==
    (cpc = "done" /\ ValidOverlap /\ Len(strip(cin)) > cmax) =>
        /\ \A n \in 1..Len(cchunks) :
              /\ Len(cchunks[n]) <= cmax
              /\ n < Len(cchunks) => Len(cchunks[n]) = cmax
              /\ cchunks[n] = Slice(strip(cin), coffs[n], coffs[n] + Len(cchunks[n]))
              /\ n > 1 => coffs[n] = coffs[n - 1] + Len(cchunks[n - 1]) - cover
        /\ coffs[1] = 0
        /\ Rejoin(cchunks, cover) = strip(cin)

\* A call with overlap 1 that returned two chunks, the second shorter than
\* max_chars and starting one character before the end of the first.
C25_Witness ==
    /\ cpc = "done"
    /\ cover = 1
    /\ cmax = 3
    /\ Len(cchunks) = 2
    /\ Len(cchunks[2]) < cmax
    /\ coffs = <<0, 2>>
    /\ Rejoin(cchunks, cover) = strip(cin)


\* ---- store numbering
\* C26: in every state of the store, also after a run that a failed write
\* ended and while two runs write at the same time, the chunk_no values
\* stored for a doc_id are 0..M-1 without gap, one row per value, and every
\* stored row has its doc_id and chunk_no as chunk_id.
C26_StoreGapFree ==
    /\ \A d \in {store[n].doc_id : n \in 1..Len(store)} :
          /\ {store[n].chunk_no : n \in StoreRows(d)}
                = 0..(Cardinality(StoreRows(d)) - 1)
    /\ \A n \in 1..Len(store) :
          store[n].chunk_id = <<store[n].doc_id, store[n].chunk_no>>

\* A run that a failed write ended after its first batch, while the other
\* run, over the same document with other parameters, was writing as well.
C26_Witness ==
    /\ wk["w1"].pc = "failed"
    /\ wk["w1"].pos > 1
    /\ wk["w2"].pc \in {"insert", "done"}
    /\ wk["w2"].raced
    /\ wk["w2"].args.input = wk["w1"].args.input
    /\ ~SameParams(wk["w1"].args, wk["w2"].args)
    /\ Len(store) >= 3


\* ---- re-ingestion
\* C27: a file ingested by one completed run and then by another, with the
\* same or other max_chars and overlap: the rows stored for its doc_id are
\* the chunks of the later run, one row each, and none besides.
C27_LatestRunOnly ==
    (/\ wk["w1"].pc = "done"
     /\ wk["w2"].pc = "done"
     /\ wk["w1"].args.input \in Paths
     /\ wk["w2"].args.input = wk["w1"].args.input
     /\ wk["w2"].chunks # <<>>)
    => LET d == wk["w2"].chunks[1].doc_id
       IN /\ {Core(store[n]) : n \in StoreRows(d)}
                = {Core(wk["w2"].chunks[n]) : n \in 1..Len(wk["w2"].chunks)}
          /\ Cardinality(StoreRows(d)) = Len(wk["w2"].chunks)


\* ---- one call, the same bytes twice
\* C28: a run over two paths with the same bytes, and so one doc_id, leaves
\* for that doc_id the rows a run over one of the paths alone leaves: as
\* many rows as that path has chunks, numbered from 0, each chunk text
\* stored once.
C28_SameBytesStoredOnce ==
    \A w \in Workers :
        (/\ wk[w].pc = "done"
         /\ wk[w].args.input \in DOMAIN Dirs
         /\ \E p, q \in Dirs[wk[w].args.input] :
               p # q /\ Files[p].bytes = Files[q].bytes
         /\ \A v \in Workers \ {w} : wk[v].pc = "idle")
        => \E p \in Dirs[wk[w].args.input] :
              LET alone == resequence(StampChunks(
                               extract_to_chunks(p, wk[w].args.max_chars,
                                                 wk[w].args.overlap), wk[w].args))
              IN store = Upsert(<<>>, alone)


\* ---- concurrent metadata
\* The rows stored for a doc_id all carry the symbol, title and url that
\* the command line args stamps.
StampedBy(d, args) ==
    \A n \in StoreRows(d) :
        /\ store[n].symbol = Stamped(args.symbol)
        /\ store[n].title = Stamped(args.title)
        /\ store[n].url = Stamped(args.url)

\* C29: two runs over the same document with other symbol, title or url,
\* writing at the same time: when both have ended, all rows of the doc_id
\* carry the metadata of one and the same run, however their batch writes
\* interleaved.
C29_MetadataUniform ==
    (/\ wk["w1"].pc = "done" /\ wk["w2"].pc = "done"
     /\ wk["w1"].chunks # <<>>
     /\ wk["w1"].args.input \in Paths
     /\ wk["w2"].args.input = wk["w1"].args.input
     /\ SameParams(wk["w1"].args, wk["w2"].args)
     /\ ~SameMeta(wk["w1"].args, wk["w2"].args))
    => \E w \in Workers : StampedBy(wk["w1"].chunks[1].doc_id, wk[w].args)


\* ---- save_to_database
\* The rows of the facts table that hold record id.
FactRows(id) == {n \in 1..Len(facts) : facts[n] = id}

\* C30: save_to_database makes at most max_retries attempts, and when it
\* has returned normally every fact record is in bronze_sec_facts exactly
\* once, also when an earlier attempt failed after it had committed some of
\* its batches.
C30_SavedExactlyOnce ==
    /\ sv.pc # "idle" => sv.attempt + 1 <= sv.max_retries
    /\ sv.pc = "returned" =>
          \A id \in 1..sv.records : Cardinality(FactRows(id)) = 1

=========================================================================
